---------------------------- MODULE Spec2Model ----------------------------
(***************************************************************************)
(* Streaming response synchronisation of the chat client:                  *)
(*   - src/src/pages/Chat.tsx      ChatPage: handleSendMessage (stream     *)
(*     read loop, finalize, teardown), handleImageRequest, the render      *)
(*     scheduler updateDraftContentThrottled, the unmount cleanup;         *)
(*   - src/src/types/chat.ts       useConversations: addMessage,           *)
(*     createAssistantDraft, updateMessageContent, selectConversation,     *)
(*     fetchMessages, createConversation, the realtime INSERT handler.     *)
(*                                                                         *)
(* Text is modelled as a sequence of one-character strings, so that a      *)
(* chunk boundary can fall at any character of the wire format.            *)
(***************************************************************************)
EXTENDS Integers, Sequences, FiniteSets, TLC

(***************************************************************************)
(* Bounds of the model.                                                    *)
(***************************************************************************)
\* lines per input text of the frame-parser specification
MaxLines == 2
\* invocations of handleSendMessage / handleImageRequest
MaxSends == 2
\* conversations that can exist (one exists initially)
MaxConvs == 2
\* clicks on a conversation of the sidebar (selectConversation)
MaxSelects == 1
\* failures the environment injects in one behaviour (a failed database
\* call, a failed or non-ok request, a transport error, a failed function)
MaxFaults == 1

(***************************************************************************)
(* Characters and literals of the wire format.                             *)
(***************************************************************************)
LF == "\n"
CR == "\r"
EmptyText == << >>

\* 'data: '  (Chat.tsx:167)
DataPrefix == <<"d","a","t","a",":"," ">>
\* '[DONE]'  (Chat.tsx:170)
DoneLiteral == <<"[","D","O","N","E","]">>
\* the characters String.prototype.trim removes, among those of the model
Whitespace == {" ", "\t", CR, LF}
\* characters a delta is made of in the model (no quote, no backslash)
PlainChars == {"H","e","l","o","i","x"}

\* {"choices":[{"delta":{"content":"   ...   "}}]}
PayloadHead == <<"{","\"","c","h","o","i","c","e","s","\"",":","[","{","\"",
                 "d","e","l","t","a","\"",":","{","\"","c","o","n","t","e",
                 "n","t","\"",":","\"">>
PayloadTail == <<"\"","}","}","]","}">>
NullLiteral == <<"n","u","l","l">>
EmptyObject == <<"{","}">>

(***************************************************************************)
(* String primitives of JavaScript used by the read loop.                  *)
(***************************************************************************)
RECURSIVE IndexFrom(_, _, _)
IndexFrom(s, c, i) ==
    IF i > Len(s) THEN 0
    ELSE IF s[i] = c THEN i
    ELSE IndexFrom(s, c, i + 1)

\* textBuffer.indexOf('\n'), 1-based; 0 stands for -1
IndexOf(s, c) == IndexFrom(s, c, 1)

\* s.slice(from) with a 0-based from, as JavaScript counts
SliceFrom(s, from) == SubSeq(s, from + 1, Len(s))

\* s.slice(0, to) with a 0-based exclusive end
SliceTo(s, to) == SubSeq(s, 1, to)

StartsWith(s, p) == Len(s) >= Len(p) /\ SubSeq(s, 1, Len(p)) = p

EndsWith(s, p) == Len(s) >= Len(p) /\ SubSeq(s, Len(s) - Len(p) + 1, Len(s)) = p

RECURSIVE TrimLeft(_)
TrimLeft(s) ==
    IF s # << >> /\ Head(s) \in Whitespace THEN TrimLeft(Tail(s)) ELSE s

RECURSIVE TrimRight(_)
TrimRight(s) ==
    IF s # << >> /\ s[Len(s)] \in Whitespace
    THEN TrimRight(SubSeq(s, 1, Len(s) - 1))
    ELSE s

\* String.prototype.trim
Trim(s) == TrimRight(TrimLeft(s))

(***************************************************************************)
(* JSON.parse followed by parsed.choices?.[0]?.delta?.content, on the      *)
(* payloads the modelled streams carry.  Every other string those streams  *)
(* can present (a truncated payload, the empty string, ...) is not JSON    *)
(* and makes JSON.parse throw; the payload null parses, and reading        *)
(* .choices of it throws inside the same try block.                        *)
(*   result: [throws |-> BOOLEAN, delta |-> text]  (delta << >>: absent    *)
(*   or empty, both falsy)                                                 *)
(***************************************************************************)
IsDeltaPayload(s) ==
    /\ Len(s) >= Len(PayloadHead) + Len(PayloadTail)
    /\ StartsWith(s, PayloadHead)
    /\ EndsWith(s, PayloadTail)
    /\ \A i \in (Len(PayloadHead) + 1)..(Len(s) - Len(PayloadTail)) :
           s[i] \in PlainChars

ParseDelta(s) ==
    IF IsDeltaPayload(s)
    THEN [throws |-> FALSE,
          delta  |-> SubSeq(s, Len(PayloadHead) + 1, Len(s) - Len(PayloadTail))]
    ELSE IF s = EmptyObject
    THEN [throws |-> FALSE, delta |-> EmptyText]
    ELSE IF s = NullLiteral
    THEN [throws |-> TRUE, delta |-> EmptyText]   \* TypeError in the try block
    ELSE [throws |-> TRUE, delta |-> EmptyText]   \* SyntaxError of JSON.parse

(***************************************************************************)
(* The line loop of the read loop (Chat.tsx:160-184), run on the buffer    *)
(* after a chunk was appended.  full is fullContent, ds the deltas yielded *)
(* so far in the session, calls the values handed to                       *)
(* updateDraftContentThrottled while this chunk is processed.              *)
(***************************************************************************)
\* a loop that joins the deltas with a blank
AccumulateSpaced(full, delta) == full \o <<" ">> \o delta

\* a loop that keeps the last delta only (fullContent = delta)
AccumulateLast(full, delta) == delta

\* fullContent += delta
Accumulate(full, delta) == full \o delta

\* a catch block that puts the line behind the rest of the buffer
RebufferBehind(line, rest) == rest \o line \o <<LF>>

\* a catch block that drops the line it could not parse
RebufferDropping(line, rest) == rest

\* textBuffer = line + '\n' + textBuffer   (line without its '\r')
Rebuffer(line, rest) == line \o <<LF>> \o rest

\* a loop that yields whatever content it extracted, the empty one too
YieldsDeltaAlways(delta) == TRUE

\* if (!delta) continue;   an absent or empty content yields nothing
YieldsDelta(delta) == delta # EmptyText

RECURSIVE LineLoop(_, _, _, _)
LineLoop(buf, full, ds, calls) ==
    LET newlineIndex == IndexOf(buf, LF) IN
    IF newlineIndex = 0
    THEN [textBuffer |-> buf, fullContent |-> full, deltas |-> ds, calls |-> calls]
    ELSE
      LET raw  == SliceTo(buf, newlineIndex - 1)
          rest == SliceFrom(buf, newlineIndex)
          line == IF EndsWith(raw, <<CR>>) THEN SliceTo(raw, Len(raw) - 1) ELSE raw
      IN
      IF StartsWith(line, <<":">>) \/ Trim(line) = EmptyText
      THEN LineLoop(rest, full, ds, calls)
      ELSE IF ~StartsWith(line, DataPrefix)
      THEN LineLoop(rest, full, ds, calls)
      ELSE
        LET jsonStr == Trim(SliceFrom(line, 6)) IN
        IF jsonStr = DoneLiteral
        THEN LineLoop(rest, full, ds, calls)
        ELSE
          LET parsed == ParseDelta(jsonStr) IN
          IF parsed.throws
          THEN \* Re-buffer incomplete JSON, break
               [textBuffer |-> Rebuffer(line, rest),
                fullContent |-> full, deltas |-> ds, calls |-> calls]
          ELSE IF ~YieldsDelta(parsed.delta)
          THEN LineLoop(rest, full, ds, calls)
          ELSE LET next == Accumulate(full, parsed.delta) IN
               LineLoop(rest, next, Append(ds, parsed.delta), Append(calls, next))

\* a loop that forgets the unfinished line of the previous chunk
AppendChunkFresh(buf, chunk) == chunk

\* textBuffer += decoder.decode(value, { stream: true })
AppendChunk(buf, chunk) == buf \o chunk

\* one iteration of the read loop with done = false
ReadChunk(st, chunk) ==
    LineLoop(AppendChunk(st.textBuffer, chunk), st.fullContent, st.deltas, << >>)

\* let textBuffer = ''; let fullContent = ''
NewStream == [textBuffer |-> EmptyText, fullContent |-> EmptyText, deltas |-> << >>]

\* the part of a read-loop result the session keeps between chunks
Kept(r) == [textBuffer |-> r.textBuffer, fullContent |-> r.fullContent,
            deltas |-> r.deltas]

\* a read loop that handled what is left in the buffer as a last line when
\* the stream closes
AtCloseFlushing(st) == Kept(ReadChunk(st, <<LF>>))

\* if (done) break;   the loop is left with textBuffer as it is
AtClose(st) == st

\* the ordered concatenation of a sequence of deltas
RECURSIVE Concat(_)
Concat(ds) == IF ds = << >> THEN EmptyText ELSE Head(ds) \o Concat(Tail(ds))

(***************************************************************************)
(* Wire-format lines the modelled server sends.                            *)
(***************************************************************************)
Hel == <<"H","e","l">>
Lo  == <<"l","o">>
Hi  == <<"H","i">>

\* data: {"choices":[{"delta":{"content":"<d>"}}]}   (no newline)
DataLine(d) == DataPrefix \o PayloadHead \o d \o PayloadTail
DoneLine == DataPrefix \o DoneLiteral

\* the byte streams (sequences of chunks) the modelled server answers with
\*   "Hel" in the first chunk, which ends inside the line of "lo"; the second
\*   chunk completes that line and carries the [DONE] line
ScriptHello == << DataLine(Hel) \o <<LF>> \o SliceTo(DataLine(Lo), 13),
                 SliceFrom(DataLine(Lo), 13) \o <<LF>> \o DoneLine \o <<LF>> >>
\*   no delta at all
ScriptEmpty == << DoneLine \o <<LF>> >>
Scripts == {ScriptHello, ScriptEmpty}

\* what the user types
UserText == <<"h","i">>
\* `Generate image: ${prompt}`
ImageText == <<"G","e","n","e","r","a","t","e"," ","i","m","a","g","e",":"," ","x">>
\* data.imageUrl
ImageUrl == <<"u","r","l">>

(***************************************************************************)
(* State.                                                                  *)
(*   rows      the messages table, in insertion (created_at) order; the id *)
(*             of a row is its index                                       *)
(*   realtime  per row, the INSERT notification of the row: its payload    *)
(*             and whether it is queued on this client's channel, was      *)
(*             merged, was ignored as a duplicate, or does not reach this  *)
(*             client (no channel on the conversation, channel removed);   *)
(*             local is history: what the list showed for the id when the  *)
(*             notification was handled                                    *)
(*   convCount number of conversations that exist (ids 1..convCount)       *)
(*   currentConversation   id of the selected conversation, 0 for null;    *)
(*             while mounted the realtime channel is subscribed to it      *)
(*   messages  the local (displayed) message list                          *)
(*   page      ChatPage's state and refs: isStreaming, streamingMessageId, *)
(*             abortRef (the session whose AbortController it holds, 0 for *)
(*             null), rafRef (0 for null), latestContentRef                *)
(*   frames    animation frames requested and neither fired nor cancelled  *)
(*   sess      the invocations of handleSendMessage / handleImageRequest:  *)
(*             their position and locals                                   *)
(*   fetches   fetchMessages calls in flight                               *)
(*   creating  a createConversation call of the sidebar is in flight       *)
(*   mounted   ChatPage is mounted                                         *)
(*   selects   number of selectConversation clicks so far                  *)
(*   faults    number of failures injected so far                          *)
(*   ghost     history: the session that supplied the latest value to the  *)
(*             render scheduler                                            *)
(*   parser    the frame parser run on its own (specification SpecParse)   *)
(***************************************************************************)
VARIABLES rows, realtime, convCount, currentConversation, messages, page,
          frames, sess, fetches, creating, mounted, selects, faults, ghost, parser

vars == <<rows, realtime, convCount, currentConversation, messages, page,
          frames, sess, fetches, creating, mounted, selects, faults, ghost, parser>>

mainVars == <<rows, realtime, convCount, currentConversation, messages, page,
              frames, sess, fetches, creating, mounted, selects, faults, ghost>>

Sessions == 1..MaxSends

\* a session before its handler is invoked
IdleSession ==
    [kind |-> "none", pc |-> "idle", capConv |-> 0, conv |-> 0,
     history |-> << >>, row |-> 0, userFailed |-> FALSE, draft |-> 0,
     dbOk |-> FALSE, stream |-> << >>, st |-> NewStream, fetched |-> FALSE,
     updates |-> << >>, toasts |-> << >>, outcome |-> "none"]

IdleParser == [input |-> EmptyText, pos |-> 0, st |-> NewStream, midLine |-> FALSE,
               closed |-> FALSE, final |-> << >>]

InitMain ==
    /\ rows = << >>
    /\ realtime = << >>
    /\ convCount = 1
    /\ currentConversation \in {0, 1}
    /\ messages = << >>
    /\ page = [isStreaming |-> FALSE, streamingMessageId |-> 0, abortRef |-> 0,
               rafRef |-> 0, latestContentRef |-> EmptyText]
    /\ frames = {}
    /\ sess = [s \in Sessions |-> IdleSession]
    /\ fetches = {}
    /\ creating = FALSE
    /\ mounted = TRUE
    /\ selects = 0
    /\ faults = 0
    /\ ghost = [lastSupplier |-> 0]

Init == InitMain /\ parser = IdleParser

(***************************************************************************)
(* useConversations (src/src/types/chat.ts).                               *)
(***************************************************************************)
\* toMessage: the cast of a database row to a Message
ToMessage(row) ==
    [id |-> row.id, conv |-> row.conv, role |-> row.role,
     content |-> row.content, draft |-> row.draft]

\* the conversation the realtime channel is subscribed to (0: none)
Channel == IF mounted THEN currentConversation ELSE 0

\* supabase.removeChannel(channel): notifications not yet delivered are lost
RemoveChannel(rt) ==
    [i \in DOMAIN rt |->
        IF rt[i].status = "queued" THEN [rt[i] EXCEPT !.status = "none"] ELSE rt[i]]

\* an effect whose cleanup left the previous channel subscribed
ResubscribeKeeping(rt, c) == rt

\* the realtime state after currentConversation becomes c
Resubscribe(rt, c) == IF c = currentConversation THEN rt ELSE RemoveChannel(rt)

\* the row an insert creates
NewRow(conv, role, content, draft) ==
    [id |-> Len(rows) + 1, conv |-> conv, role |-> role, content |-> content,
     draft |-> draft]

\* the insert commits at the server and is published to the subscribed channel
InsertRow(row) ==
    /\ rows' = Append(rows, row)
    /\ realtime' = Append(realtime,
          [status |-> IF Channel = row.conv THEN "queued" ELSE "none",
           msg |-> ToMessage(row), local |-> EmptyText])

HasId(list, id) == \E i \in 1..Len(list) : list[i].id = id

\* the content the list shows for message id (of its first entry with that id)
ContentOf(list, id) ==
    IF HasId(list, id)
    THEN list[CHOOSE i \in 1..Len(list) :
                 list[i].id = id /\ \A j \in 1..(i - 1) : list[j].id # id].content
    ELSE EmptyText

\* addMessage: setMessages(prev => [...prev, message])
AppendMessage(prev, m) == Append(prev, m)

\* createAssistantDraft: setMessages(prev => prev.some(..) ? prev : [...prev, message])
AppendDraft(prev, m) == IF HasId(prev, m.id) THEN prev ELSE Append(prev, m)

\* a handler that replaces the local entry by the incoming copy (an upsert)
MergeInsertUpsert(prev, m) ==
    IF \E i \in 1..Len(prev) : prev[i].id = m.id
    THEN [i \in 1..Len(prev) |-> IF prev[i].id = m.id THEN m ELSE prev[i]]
    ELSE Append(prev, m)

\* the realtime INSERT handler's setMessages
MergeInsert(prev, m) == IF HasId(prev, m.id) THEN prev ELSE Append(prev, m)

\* a write that moves the entry to the end of the list
SetContentMovingLast(prev, messageId, content) ==
    SelectSeq(prev, LAMBDA m : m.id # messageId)
    \o [i \in 1..Len(SelectSeq(prev, LAMBDA m : m.id = messageId)) |->
           [SelectSeq(prev, LAMBDA m : m.id = messageId)[i] EXCEPT !.content = content]]

\* a local write that clears the draft marker as the stored update does
SetContentClearingDraft(prev, messageId, content) ==
    [i \in 1..Len(prev) |->
        IF prev[i].id = messageId
        THEN [prev[i] EXCEPT !.content = content, !.draft = FALSE]
        ELSE prev[i]]

\* prev.map(m => (m.id === messageId ? { ...m, content } : m))
SetContent(prev, messageId, content) ==
    [i \in 1..Len(prev) |->
        IF prev[i].id = messageId THEN [prev[i] EXCEPT !.content = content]
        ELSE prev[i]]

\* .update({ content, metadata: null }).eq('id', messageId)
UpdateRow(rs, messageId, content) ==
    [i \in 1..Len(rs) |->
        IF rs[i].id = messageId
        THEN [rs[i] EXCEPT !.content = content, !.draft = FALSE]
        ELSE rs[i]]

\* select('*').eq('conversation_id', c).order('created_at'), mapped by toMessage
RECURSIVE ListMessages(_, _)
ListMessages(rs, c) ==
    IF rs = << >> THEN << >>
    ELSE IF Head(rs).conv = c
         THEN <<ToMessage(Head(rs))>> \o ListMessages(Tail(rs), c)
         ELSE ListMessages(Tail(rs), c)

(***************************************************************************)
(* ChatPage (src/src/pages/Chat.tsx).                                      *)
(***************************************************************************)
\* [...messages, { role: 'user', content }].map(m => ({ role, content }))
RECURSIVE RoleContent(_)
RoleContent(list) ==
    IF list = << >> THEN << >>
    ELSE <<[role |-> Head(list).role, content |-> Head(list).content]>>
         \o RoleContent(Tail(list))

\* a payload of the prior messages alone
HistoryWithoutUser(list, content) == RoleContent(list)

HistoryForRequest(list, content) ==
    RoleContent(list) \o <<[role |-> "user", content |-> content]>>

\* a finally block that leaves the page streaming
FinallyStillStreaming(pg) == [pg EXCEPT !.abortRef = 0]

\* a finally block that leaves the controller in abortRef
FinallyKeepingHandle(pg) ==
    [pg EXCEPT !.isStreaming = FALSE, !.streamingMessageId = 0]

\* the finally block of handleSendMessage
Finally(pg) ==
    [pg EXCEPT !.abortRef = 0, !.isStreaming = FALSE, !.streamingMessageId = 0]

\* the finally block of handleImageRequest
FinallyImage(pg) == [pg EXCEPT !.isStreaming = FALSE]

\* setIsStreaming(true); setStreamingMessageId(draft.id); abortRef.current = controller
StartSession(pg, s, draftId) ==
    [pg EXCEPT !.isStreaming = TRUE, !.streamingMessageId = draftId, !.abortRef = s]

\* a catch block that reports every error, an abort included
CatchToastsAlways(errorName) == <<"generic">>

\* the catch block of handleSendMessage: the toasts it shows for an error
CatchToasts(errorName) ==
    IF errorName # "AbortError" THEN <<"generic">> ELSE << >>

\* a finalize step that wrote whatever was accumulated, the empty text too
FinalizeCallsAlways(draftId, fullContent) ==
    <<[id |-> draftId, content |-> fullContent]>>

\* if (fullContent) await updateMessageContent(draft.id, fullContent)
FinalizeCalls(draftId, fullContent) ==
    IF fullContent # EmptyText
    THEN <<[id |-> draftId, content |-> fullContent]>>
    ELSE << >>

Max(S) == CHOOSE x \in S : \A y \in S : y <= x

\* a scheduler that requests a frame for every value
UpdateDraftContentUnthrottled(ui, messageId, content) ==
    LET handle == 1 + Max({f.handle : f \in ui.frames} \cup {0}) IN
    [page |-> [ui.page EXCEPT !.latestContentRef = content, !.rafRef = handle],
     frames |-> ui.frames \cup {[handle |-> handle, messageId |-> messageId]}]

(***************************************************************************)
(* updateDraftContentThrottled(messageId, content) on ui = [page, frames]: *)
(* the latest value is stored; a frame is requested when rafRef is null.   *)
(***************************************************************************)
UpdateDraftContentThrottled(ui, messageId, content) ==
    LET pg == [ui.page EXCEPT !.latestContentRef = content] IN
    IF ui.page.rafRef # 0
    THEN [page |-> pg, frames |-> ui.frames]
    ELSE LET handle == 1 + Max({f.handle : f \in ui.frames} \cup {0}) IN
         [page |-> [pg EXCEPT !.rafRef = handle],
          frames |-> ui.frames \cup {[handle |-> handle, messageId |-> messageId]}]

\* the calls of updateDraftContentThrottled one chunk makes, in order
RECURSIVE SupplyAll(_, _, _)
SupplyAll(ui, messageId, calls) ==
    IF calls = << >> THEN ui
    ELSE SupplyAll(UpdateDraftContentThrottled(ui, messageId, Head(calls)),
                   messageId, Tail(calls))

\* the frame callback: rafRef.current = null; setMessages(map ... content: next)
FrameCallback(pg, list, messageId) ==
    [page |-> [pg EXCEPT !.rafRef = 0],
     messages |-> SetContent(list, messageId, pg.latestContentRef)]

\* cancelAnimationFrame(rafRef.current) of the unmount cleanup
CancelFrame(pg, fr) ==
    IF pg.rafRef # 0 THEN {f \in fr : f.handle # pg.rafRef} ELSE fr

\* ChatMessage isStreaming={message.id === streamingMessageId}: whether the
\* render presents message m as in progress
PresentedStreaming(pg, m) == m.id = pg.streamingMessageId

(***************************************************************************)
(* Steps of handleSendMessage and handleImageRequest.  A handler runs to   *)
(* its next await in one step; a database call is two steps, the commit at *)
(* the server and the continuation of the client.                          *)
(***************************************************************************)
SetSess(s, rec) == sess' = [sess EXCEPT ![s] = rec]

\* the environment lets a call fail while its budget of failures lasts
Fault(failed) ==
    /\ failed => faults < MaxFaults
    /\ faults' = IF failed THEN faults + 1 ELSE faults

\* the handler returns: its locals (textBuffer, the reader) are gone
Finish(rec, outcome) ==
    [rec EXCEPT !.pc = "done", !.outcome = outcome, !.stream = << >>,
                !.st.textBuffer = EmptyText, !.history = << >>, !.capConv = 0,
                !.row = 0, !.dbOk = FALSE]

CanInvoke(s) ==
    /\ mounted
    /\ sess[s].pc = "idle"
    /\ IF s = 1 THEN TRUE ELSE sess[s - 1].pc # "idle"

\* the handler up to its first await: the isStreaming guard, the closure's
\* currentConversation and messages (the history snapshot is taken from the
\* closure's messages, whatever happens during the awaits before it)
Invoke(s, kind, content) ==
    /\ CanInvoke(s)
    /\ IF page.isStreaming
       THEN SetSess(s, Finish([sess[s] EXCEPT !.kind = kind], "noop"))
       ELSE SetSess(s, [sess[s] EXCEPT
                !.kind = kind,
                !.capConv = currentConversation,
                !.conv = currentConversation,
                !.history = IF kind = "chat"
                            THEN HistoryForRequest(messages, content) ELSE << >>,
                !.pc = IF currentConversation = 0 THEN "createConv" ELSE "userInsert"])
    /\ UNCHANGED <<rows, realtime, convCount, currentConversation, messages, page,
                   frames, fetches, creating, mounted, selects, faults, ghost, parser>>

HandleSendMessage(s) == Invoke(s, "chat", UserText)

HandleImageRequest(s) == Invoke(s, "image", ImageText)

\* createConversation answers the handler; with the new conversation the
\* handler calls addMessage (and createAssistantDraft) of its own render,
\* whose currentConversation is null: both return null at once
CreateConversationDone(s, ok) ==
    /\ sess[s].pc = "createConv"
    /\ Fault(~ok)
    /\ ok => convCount < MaxConvs
    /\ IF ok
       THEN /\ convCount' = convCount + 1
            /\ currentConversation' = convCount + 1
            /\ messages' = << >>
            /\ realtime' = Resubscribe(realtime, convCount + 1)
            /\ IF sess[s].kind = "chat"
               THEN /\ SetSess(s, Finish([sess[s] EXCEPT
                            !.conv = convCount + 1, !.userFailed = TRUE,
                            !.toasts = Append(@, "draft")], "draftfail"))
                    /\ page' = page
               ELSE /\ SetSess(s, [sess[s] EXCEPT
                            !.conv = convCount + 1, !.userFailed = TRUE,
                            !.pc = "invoke"])
                    /\ page' = [page EXCEPT !.isStreaming = TRUE]
       ELSE /\ SetSess(s, Finish([sess[s] EXCEPT !.toasts = Append(@, "conversation")],
                                 "convfail"))
            /\ UNCHANGED <<convCount, currentConversation, messages, realtime, page>>
    /\ UNCHANGED <<rows, frames, fetches, creating, mounted, selects, ghost, parser>>

\* the insert of addMessage('user', ...) commits (or fails) at the server
UserInsert(s, ok) ==
    /\ sess[s].pc = "userInsert"
    /\ Fault(~ok)
    /\ IF ok
       THEN /\ InsertRow(NewRow(sess[s].capConv, "user",
                                IF sess[s].kind = "chat" THEN UserText ELSE ImageText,
                                FALSE))
            /\ SetSess(s, [sess[s] EXCEPT !.row = Len(rows) + 1, !.pc = "userResp"])
       ELSE /\ SetSess(s, [sess[s] EXCEPT !.row = 0, !.pc = "userResp"])
            /\ UNCHANGED <<rows, realtime>>
    /\ UNCHANGED <<convCount, currentConversation, messages, page, frames, fetches,
                   creating, mounted, selects, ghost, parser>>

\* addMessage continues; its result is not looked at by the handler, which
\* goes on to createAssistantDraft (chat) or to the image function (image)
UserResp(s) ==
    /\ sess[s].pc = "userResp"
    /\ messages' = IF sess[s].row # 0
                   THEN AppendMessage(messages, ToMessage(rows[sess[s].row]))
                   ELSE messages
    /\ IF sess[s].kind = "chat"
       THEN /\ SetSess(s, [sess[s] EXCEPT !.userFailed = (sess[s].row = 0),
                                          !.pc = "draftInsert"])
            /\ page' = page
       ELSE /\ SetSess(s, [sess[s] EXCEPT !.userFailed = (sess[s].row = 0),
                                          !.pc = "invoke"])
            /\ page' = [page EXCEPT !.isStreaming = TRUE]
    /\ UNCHANGED <<rows, realtime, convCount, currentConversation, frames, fetches,
                   creating, mounted, selects, faults, ghost, parser>>

\* the insert of createAssistantDraft commits (or fails) at the server
DraftInsert(s, ok) ==
    /\ sess[s].pc = "draftInsert"
    /\ Fault(~ok)
    /\ IF ok
       THEN /\ InsertRow(NewRow(sess[s].capConv, "assistant", EmptyText, TRUE))
            /\ SetSess(s, [sess[s] EXCEPT !.draft = Len(rows) + 1, !.pc = "draftResp"])
       ELSE /\ SetSess(s, [sess[s] EXCEPT !.draft = 0, !.pc = "draftResp"])
            /\ UNCHANGED <<rows, realtime>>
    /\ UNCHANGED <<convCount, currentConversation, messages, page, frames, fetches,
                   creating, mounted, selects, ghost, parser>>

\* createAssistantDraft continues; without a draft the handler reports and
\* returns, with one it starts the session and issues the stream request
DraftResp(s) ==
    /\ sess[s].pc = "draftResp"
    /\ IF sess[s].draft = 0
       THEN /\ SetSess(s, Finish([sess[s] EXCEPT !.toasts = Append(@, "draft")],
                                 "draftfail"))
            /\ UNCHANGED <<messages, page>>
       ELSE /\ messages' = AppendDraft(messages, ToMessage(rows[sess[s].draft]))
            /\ page' = StartSession(page, s, sess[s].draft)
            /\ SetSess(s, [sess[s] EXCEPT !.fetched = TRUE, !.pc = "fetch"])
    /\ UNCHANGED <<rows, realtime, convCount, currentConversation, frames, fetches,
                   creating, mounted, selects, faults, ghost, parser>>

FailureResponses == {"429", "402", "500", "nobody", "neterr"}

\* a handler that reported every failed request with the generic toast
FailureToastsGeneric(r) == <<"generic">>

\* the toasts of a failed request: 429, 402, or the catch block
FailureToasts(r) ==
    IF r = "429" THEN <<"rate">>
    ELSE IF r = "402" THEN <<"credits">>
    ELSE CatchToasts("Error")

\* how the send ends: the two reported statuses return, the rest is thrown
FailureOutcome(r) == IF r \in {"429", "402"} THEN r ELSE "failed"

\* fetch fails, or answers with a status that is not ok, or without a body
FetchFailed(s, r) ==
    /\ sess[s].pc = "fetch"
    /\ Fault(TRUE)
    /\ SetSess(s, Finish([sess[s] EXCEPT !.toasts = @ \o FailureToasts(r)],
                         FailureOutcome(r)))
    /\ page' = Finally(page)
    /\ UNCHANGED <<rows, realtime, convCount, currentConversation, messages, frames,
                   fetches, creating, mounted, selects, ghost, parser>>

\* fetch answers ok with a body: the read loop starts
FetchOk(s, script) ==
    /\ sess[s].pc = "fetch"
    /\ SetSess(s, [sess[s] EXCEPT !.stream = script, !.pc = "read"])
    /\ UNCHANGED <<rows, realtime, convCount, currentConversation, messages, page,
                   frames, fetches, creating, mounted, selects, faults, ghost, parser>>

\* reader.read() yields a chunk: the line loop runs on it
\* a read loop that stored every running text as it arrived (not what the
\* code does: the loop body has no persistence call)
ReadDataPersisting(s) ==
    /\ sess[s].pc = "read"
    /\ sess[s].stream # << >>
    /\ LET r  == ReadChunk(sess[s].st, Head(sess[s].stream))
           ui == SupplyAll([page |-> page, frames |-> frames], sess[s].draft, r.calls)
       IN /\ page' = ui.page
          /\ frames' = ui.frames
          /\ rows' = IF r.calls = << >> THEN rows
                     ELSE UpdateRow(rows, sess[s].draft, r.fullContent)
          /\ SetSess(s, [sess[s] EXCEPT !.st = Kept(r), !.stream = Tail(@)])
          /\ ghost' = IF r.calls = << >> THEN ghost
                      ELSE [ghost EXCEPT !.lastSupplier = s]
    /\ UNCHANGED <<realtime, convCount, currentConversation, messages, fetches,
                   creating, mounted, selects, faults, parser>>

ReadData(s) ==
    /\ sess[s].pc = "read"
    /\ sess[s].stream # << >>
    /\ LET r  == ReadChunk(sess[s].st, Head(sess[s].stream))
           ui == SupplyAll([page |-> page, frames |-> frames], sess[s].draft, r.calls)
       IN /\ page' = ui.page
          /\ frames' = ui.frames
          /\ SetSess(s, [sess[s] EXCEPT !.st = Kept(r), !.stream = Tail(@)])
          /\ ghost' = IF r.calls = << >> THEN ghost
                      ELSE [ghost EXCEPT !.lastSupplier = s]
    /\ UNCHANGED <<rows, realtime, convCount, currentConversation, messages, fetches,
                   creating, mounted, selects, faults, parser>>

\* reader.read() yields done: finalize when there is text, then finally
ReadDone(s) ==
    /\ sess[s].pc = "read"
    /\ sess[s].stream = << >>
    /\ LET end   == AtClose(sess[s].st)
           calls == FinalizeCalls(sess[s].draft, end.fullContent)
       IN
       IF calls # << >>
       THEN /\ SetSess(s, [sess[s] EXCEPT !.st = end, !.updates = @ \o calls,
                                          !.pc = "update"])
            /\ page' = page
       ELSE /\ SetSess(s, Finish([sess[s] EXCEPT !.st = end], "empty"))
            /\ page' = Finally(page)
    /\ UNCHANGED <<rows, realtime, convCount, currentConversation, messages, frames,
                   fetches, creating, mounted, selects, faults, ghost, parser>>

\* reader.read() rejects (transport error): catch, finally
ReadError(s) ==
    /\ sess[s].pc = "read"
    /\ Fault(TRUE)
    /\ SetSess(s, Finish([sess[s] EXCEPT !.toasts = @ \o CatchToasts("TypeError")],
                         "streamerr"))
    /\ page' = Finally(page)
    /\ UNCHANGED <<rows, realtime, convCount, currentConversation, messages, frames,
                   fetches, creating, mounted, selects, ghost, parser>>

\* the update of updateMessageContent commits (or fails) at the server
UpdateWrite(s, ok) ==
    /\ sess[s].pc = "update"
    /\ Fault(~ok)
    /\ LET call == sess[s].updates[Len(sess[s].updates)] IN
       rows' = IF ok THEN UpdateRow(rows, call.id, call.content) ELSE rows
    /\ SetSess(s, [sess[s] EXCEPT !.dbOk = ok, !.pc = "updateResp"])
    /\ UNCHANGED <<realtime, convCount, currentConversation, messages, page, frames,
                   fetches, creating, mounted, selects, ghost, parser>>

\* an updateMessageContent that cleared the local content when the update
\* failed
LocalAfterUpdateRollback(prev, ok, id, content) ==
    IF ok THEN SetContent(prev, id, content) ELSE SetContent(prev, id, EmptyText)

\* if (error) throw error; setMessages(prev => prev.map(...)); the catch
\* block leaves the list alone
LocalAfterUpdate(prev, ok, id, content) ==
    IF ok THEN SetContent(prev, id, content) ELSE prev

\* updateMessageContent continues (local content on success), then finally
UpdateResp(s) ==
    /\ sess[s].pc = "updateResp"
    /\ LET call == sess[s].updates[Len(sess[s].updates)] IN
       messages' = LocalAfterUpdate(messages, sess[s].dbOk, call.id, call.content)
    /\ SetSess(s, Finish(sess[s], IF sess[s].dbOk THEN "finalized" ELSE "unsaved"))
    /\ page' = Finally(page)
    /\ UNCHANGED <<rows, realtime, convCount, currentConversation, frames, fetches,
                   creating, mounted, selects, faults, ghost, parser>>

ImageResults == {"url", "nourl", "error"}

\* supabase.functions.invoke('generate-image') answers
ImageInvoked(s, r) ==
    /\ sess[s].pc = "invoke"
    /\ Fault(r = "error")
    /\ IF r = "error"
       THEN /\ SetSess(s, Finish([sess[s] EXCEPT !.toasts = Append(@, "image")], "imgerr"))
            /\ page' = FinallyImage(page)
       ELSE IF r = "nourl" \/ sess[s].capConv = 0
       THEN \* no imageUrl, or addMessage of a render without conversation
            /\ SetSess(s, Finish(sess[s], "imgnone"))
            /\ page' = FinallyImage(page)
       ELSE /\ SetSess(s, [sess[s] EXCEPT !.pc = "asstInsert"])
            /\ page' = page
    /\ UNCHANGED <<rows, realtime, convCount, currentConversation, messages, frames,
                   fetches, creating, mounted, selects, ghost, parser>>

\* the insert of addMessage('assistant', imageUrl, 'image') at the server
AsstInsert(s, ok) ==
    /\ sess[s].pc = "asstInsert"
    /\ Fault(~ok)
    /\ IF ok
       THEN /\ InsertRow(NewRow(sess[s].capConv, "assistant", ImageUrl, FALSE))
            /\ SetSess(s, [sess[s] EXCEPT !.row = Len(rows) + 1, !.pc = "asstResp"])
       ELSE /\ SetSess(s, [sess[s] EXCEPT !.row = 0, !.pc = "asstResp"])
            /\ UNCHANGED <<rows, realtime>>
    /\ UNCHANGED <<convCount, currentConversation, messages, page, frames, fetches,
                   creating, mounted, selects, ghost, parser>>

\* addMessage continues, then the finally block of handleImageRequest
AsstResp(s) ==
    /\ sess[s].pc = "asstResp"
    /\ messages' = IF sess[s].row # 0
                   THEN AppendMessage(messages, ToMessage(rows[sess[s].row]))
                   ELSE messages
    /\ SetSess(s, Finish(sess[s], IF sess[s].row # 0 THEN "imgok" ELSE "imgunsaved"))
    /\ page' = FinallyImage(page)
    /\ UNCHANGED <<rows, realtime, convCount, currentConversation, frames, fetches,
                   creating, mounted, selects, faults, ghost, parser>>

(***************************************************************************)
(* The unmount cleanup of ChatPage: abortRef.current?.abort(), then        *)
(* cancelAnimationFrame.  The aborted fetch or read rejects with an        *)
(* AbortError, and the catch and finally blocks of that send run before    *)
(* any other event.  The hook's cleanup removes the realtime channel.      *)
(***************************************************************************)
Abortable(s) == s # 0 /\ sess[s].pc \in {"fetch", "read"}

Unmount ==
    /\ mounted
    /\ mounted' = FALSE
    /\ frames' = CancelFrame(page, frames)
    /\ realtime' = RemoveChannel(realtime)
    /\ IF Abortable(page.abortRef)
       THEN /\ SetSess(page.abortRef,
                  Finish([sess[page.abortRef] EXCEPT
                             !.toasts = @ \o CatchToasts("AbortError")], "abort"))
            /\ page' = Finally(page)
       ELSE UNCHANGED <<sess, page>>
    /\ UNCHANGED <<rows, convCount, currentConversation, messages, fetches, creating,
                   selects, faults, ghost, parser>>

\* a requested animation frame fires
FrameFire(f) ==
    /\ f \in frames
    /\ LET r == FrameCallback(page, messages, f.messageId) IN
       /\ page' = r.page
       /\ messages' = r.messages
    /\ frames' = frames \ {f}
    /\ UNCHANGED <<rows, realtime, convCount, currentConversation, sess, fetches,
                   creating, mounted, selects, faults, ghost, parser>>

\* the channel delivers the INSERT notification of row id (in commit order)
RealtimeInsert(id) ==
    /\ id \in DOMAIN realtime
    /\ realtime[id].status = "queued"
    /\ \A j \in 1..(id - 1) : realtime[j].status # "queued"
    /\ messages' = MergeInsert(messages, realtime[id].msg)
    /\ realtime' = [realtime EXCEPT
                       ![id].status = IF HasId(messages, id) THEN "ignored" ELSE "merged",
                       ![id].local = ContentOf(messages, id)]
    /\ UNCHANGED <<rows, convCount, currentConversation, page, frames, sess, fetches,
                   creating, mounted, selects, faults, ghost, parser>>

\* selectConversation(c) up to the await of fetchMessages
SelectConversation(c) ==
    /\ mounted
    /\ selects < MaxSelects
    /\ c \in 1..convCount
    /\ selects' = selects + 1
    /\ currentConversation' = c
    /\ realtime' = Resubscribe(realtime, c)
    /\ fetches' = fetches \cup {[conv |-> c, phase |-> "sent", data |-> << >>]}
    /\ UNCHANGED <<rows, convCount, messages, page, frames, sess, creating, mounted,
                   faults, ghost, parser>>

\* the select of fetchMessages is answered by the server (or fails: logged)
FetchRead(f, ok) ==
    /\ f \in fetches
    /\ Fault(~ok)
    /\ f.phase = "sent"
    /\ fetches' = IF ok
                  THEN (fetches \ {f}) \cup
                       {[conv |-> f.conv, phase |-> "read",
                         data |-> ListMessages(rows, f.conv)]}
                  ELSE fetches \ {f}
    /\ UNCHANGED <<rows, realtime, convCount, currentConversation, messages, page,
                   frames, sess, creating, mounted, selects, ghost, parser>>

\* fetchMessages continues: setMessages(data.map(toMessage))
FetchApply(f) ==
    /\ f \in fetches
    /\ f.phase = "read"
    /\ messages' = f.data
    /\ fetches' = fetches \ {f}
    /\ UNCHANGED <<rows, realtime, convCount, currentConversation, page, frames, sess,
                   creating, mounted, selects, faults, ghost, parser>>

\* the sidebar's "new conversation": createConversation up to its await
NewConversation ==
    /\ mounted
    /\ ~creating
    /\ convCount < MaxConvs
    /\ creating' = TRUE
    /\ UNCHANGED <<rows, realtime, convCount, currentConversation, messages, page,
                   frames, sess, fetches, mounted, selects, faults, ghost, parser>>

\* createConversation continues (on failure it only reports)
NewConversationDone(ok) ==
    /\ creating
    /\ Fault(~ok)
    /\ ok => convCount < MaxConvs
    /\ creating' = FALSE
    /\ IF ok
       THEN /\ convCount' = convCount + 1
            /\ currentConversation' = convCount + 1
            /\ messages' = << >>
            /\ realtime' = Resubscribe(realtime, convCount + 1)
       ELSE UNCHANGED <<convCount, currentConversation, messages, realtime>>
    /\ UNCHANGED <<rows, page, frames, sess, fetches, mounted, selects, ghost, parser>>

\* an await of the handler of s settles and the handler runs to its next one
Settle(s) ==
    \/ \E ok \in BOOLEAN : CreateConversationDone(s, ok)
    \/ \E ok \in BOOLEAN : UserInsert(s, ok)
    \/ UserResp(s)
    \/ \E ok \in BOOLEAN : DraftInsert(s, ok)
    \/ DraftResp(s)
    \/ \E r \in FailureResponses : FetchFailed(s, r)
    \/ \E script \in Scripts : FetchOk(s, script)
    \/ ReadData(s)
    \/ ReadDone(s)
    \/ ReadError(s)
    \/ \E ok \in BOOLEAN : UpdateWrite(s, ok)
    \/ UpdateResp(s)
    \/ \E r \in ImageResults : ImageInvoked(s, r)
    \/ \E ok \in BOOLEAN : AsstInsert(s, ok)
    \/ AsstResp(s)

\* the steps of the send (or image request) s
SessionStep(s) ==
    \/ HandleSendMessage(s)
    \/ HandleImageRequest(s)
    \/ Settle(s)

\* the sidebar: selecting a conversation, creating one
Navigate ==
    \/ \E c \in 1..MaxConvs : SelectConversation(c)
    \/ \E f \in fetches, ok \in BOOLEAN : FetchRead(f, ok)
    \/ \E f \in fetches : FetchApply(f)
    \/ NewConversation
    \/ \E ok \in BOOLEAN : NewConversationDone(ok)

\* the page with one send, the sidebar and the realtime channel
Next ==
    \/ SessionStep(1)
    \/ Unmount
    \/ \E f \in frames : FrameFire(f)
    \/ \E id \in DOMAIN realtime : RealtimeInsert(id)
    \/ Navigate

Spec == Init /\ [][Next]_vars

\* the page with up to MaxSends sends in one conversation, while the realtime
\* channel delivers nothing
NextSends ==
    \/ \E s \in Sessions : SessionStep(s)
    \/ Unmount
    \/ \E f \in frames : FrameFire(f)

SpecSends == Init /\ [][NextSends]_vars

\* animation frames that were requested and not cancelled eventually fire
SpecFair == SpecSends /\ WF_vars(\E f \in frames : FrameFire(f))

(***************************************************************************)
(* The frame parser on its own: an input text is fed to the read loop in   *)
(* chunks of any sizes.                                                    *)
(***************************************************************************)
LineTemplates ==
    { DataLine(Hel) \o <<LF>>,
      DataLine(Lo) \o <<LF>>,
      DataLine(Hi) \o <<CR, LF>>,
      DoneLine \o <<LF>>,
      <<":", "k", LF>>,
      <<LF>>,
      <<" ", LF>>,
      <<"e", "v", ":", "x", LF>>,
      DataPrefix \o EmptyObject \o <<LF>>,
      DataLine(EmptyText) \o <<LF>>,
      DataPrefix \o NullLiteral \o <<LF>>,
      DataPrefix \o NullLiteral \o <<CR, LF>>,
      SliceTo(DataLine(Hi), 13) \o <<LF>>,
      DataLine(Hi) }

RECURSIVE Flatten(_)
Flatten(ls) == IF ls = << >> THEN EmptyText ELSE Head(ls) \o Flatten(Tail(ls))

Texts == { Flatten(ls) : ls \in UNION { [1..n -> LineTemplates] : n \in 1..MaxLines } }

InitParse ==
    /\ rows = << >>
    /\ realtime = << >>
    /\ convCount = 1
    /\ currentConversation = 0
    /\ messages = << >>
    /\ page = [isStreaming |-> FALSE, streamingMessageId |-> 0, abortRef |-> 0,
               rafRef |-> 0, latestContentRef |-> EmptyText]
    /\ frames = {}
    /\ sess = [s \in Sessions |-> IdleSession]
    /\ fetches = {}
    /\ creating = FALSE
    /\ mounted = TRUE
    /\ selects = 0
    /\ faults = 0
    /\ ghost = [lastSupplier |-> 0]
    /\ \E t \in Texts : parser = [IdleParser EXCEPT !.input = t]

\* the next n characters of the input arrive as one chunk
Feed(n) ==
    /\ n \in 1..(Len(parser.input) - parser.pos)
    /\ parser' = [parser EXCEPT
          !.st = Kept(ReadChunk(parser.st,
                                SubSeq(parser.input, parser.pos + 1, parser.pos + n))),
          !.pos = parser.pos + n,
          !.midLine = parser.midLine
                      \/ (parser.pos + n < Len(parser.input)
                          /\ parser.input[parser.pos + n] # LF)]
    /\ UNCHANGED mainVars

\* reader.read() yields done after the last byte: the loop is left and the
\* finalize step runs (for draft 1)
Close ==
    /\ parser.pos = Len(parser.input)
    /\ ~parser.closed
    /\ LET end == AtClose(parser.st) IN
       parser' = [parser EXCEPT !.st = end, !.closed = TRUE,
                                !.final = FinalizeCalls(1, end.fullContent)]
    /\ UNCHANGED mainVars

NextParse == (\E n \in 1..Len(parser.input) : Feed(n)) \/ Close

SpecParse == InitParse /\ [][NextParse]_vars

(***************************************************************************)
(* Properties.                                                             *)
(***************************************************************************)
\* the values a stream of Scripts makes the read loop supply
Values == {Hel, Hel \o Lo}

\* v is the last value the send s supplied for its draft, which the list
\* of the mounted page holds; the send is still reading its stream
Supplied(s, v) ==
    /\ sess[s].pc = "read"
    /\ sess[s].st.fullContent = v
    /\ HasId(messages, sess[s].draft)
    /\ mounted

\* the list shows v for the draft of s, or v is no longer the last value
\* supplied for it, or the draft left the list, or the page is unmounted
Settled(s, v) ==
    \/ ContentOf(messages, sess[s].draft) = v
    \/ sess[s].st.fullContent # v
    \/ ~HasId(messages, sess[s].draft)
    \/ ~mounted

\* no handler is running: no further value will be supplied
Quiet == \A s \in Sessions : sess[s].pc \in {"idle", "done"}

\* the send is between issuing its stream request and its teardown
Active(s) ==
    /\ sess[s].kind = "chat"
    /\ sess[s].pc \in {"fetch", "read", "update", "updateResp"}

\* the stream of the send ended normally (reader.read() yielded done)
EndedNormally(s) ==
    \/ sess[s].pc \in {"update", "updateResp"}
    \/ sess[s].outcome \in {"empty", "finalized", "unsaved"}

\* the send failed: a response that is not ok, no body, a transport error
Failed(s) == sess[s].outcome \in {"429", "402", "failed", "streamerr"}

Idle ==
    /\ page.isStreaming = FALSE
    /\ page.streamingMessageId = 0
    /\ page.abortRef = 0

\* C1: no two entries of the local message list have the same id, whatever
\* the order of addMessage, createAssistantDraft, updateMessageContent and
\* the realtime notifications (the echo of an insert may come before the
\* insert's response is processed).
NoDuplicateIds ==
    \A i, j \in 1..Len(messages) :
        i # j => messages[i].id # messages[j].id

\* C2: at most one send is between issuing its stream request and its
\* teardown, also when a handler is invoked again while an earlier send is
\* still awaiting its conversation, its user message or its draft.
AtMostOneSession == Cardinality({s \in Sessions : Active(s)}) <= 1

\* C3: chunk-boundary independence of the read loop: however the text read
\* so far was cut into chunks, the deltas yielded and the accumulated text
\* are those of reading it as one chunk, so any two ways of splitting agree;
\* a data line cut in two yields its one delta.
ChunkIndependence ==
    LET whole == ReadChunk(NewStream, SliceTo(parser.input, parser.pos)) IN
    /\ parser.st.deltas = whole.deltas
    /\ parser.st.fullContent = whole.fullContent

\* a data line cut inside the line has yielded exactly its one delta
SplitLineParsed ==
    /\ parser.input = DataLine(Hel) \o <<LF>>
    /\ parser.midLine
    /\ parser.pos = Len(parser.input)
    /\ parser.st.deltas = <<Hel>>

\* C4: realtime merge rule: a notification for a message whose id the list
\* holds leaves the list as it is (content, position and length of every
\* entry); one for a new id appends the message as the last entry.
MergeRule ==
    [][\A id \in DOMAIN realtime :
          (realtime[id].status = "queued" /\ realtime'[id].status # "queued"
           /\ realtime'[id].status # "none")
          => IF HasId(messages, id)
             THEN messages' = messages
             ELSE messages' = Append(messages, realtime[id].msg)]_vars

\* one notification was merged as new, and one for a draft that showed
\* streamed text was ignored and the text is still shown
MergedAndIgnored ==
    /\ \E id \in DOMAIN realtime : realtime[id].status = "merged"
    /\ \E id \in DOMAIN realtime :
          /\ realtime[id].status = "ignored"
          /\ realtime[id].local = Hel
          /\ realtime[id].msg.content = EmptyText
          /\ ContentOf(messages, id) = Hel

\* C5: a stream that ends normally with text issues exactly one
\* updateMessageContent, for the draft, with the concatenation of the deltas
\* of the session in order; the update that stores the text is the one that
\* clears the draft marker of the row.
FinalizeOnce ==
    /\ \A s \in Sessions :
          (EndedNormally(s) /\ sess[s].st.deltas # << >>)
          => /\ sess[s].updates =
                   <<[id |-> sess[s].draft, content |-> Concat(sess[s].st.deltas)]>>
             /\ sess[s].outcome = "finalized"
                => /\ rows[sess[s].draft].content = Concat(sess[s].st.deltas)
                   /\ ~rows[sess[s].draft].draft
    /\ \A i \in DOMAIN rows : rows[i].draft <=> (rows[i].role = "assistant"
                                                  /\ rows[i].content = EmptyText)

\* "Hel" then "lo" then [DONE]: the row holds "Hello" and is no draft
HelloFinalized ==
    \E s \in Sessions :
        /\ sess[s].outcome = "finalized"
        /\ sess[s].st.deltas = <<Hel, Lo>>
        /\ rows[sess[s].draft].content = <<"H","e","l","l","o">>
        /\ ~rows[sess[s].draft].draft
        /\ Len(sess[s].updates) = 1

\* C6: a send that is cancelled by the abort of its controller, after the
\* stream request was issued and before the stream ended, issues no
\* updateMessageContent and shows no error notification, and the controller
\* is Idle afterwards; the cleanup changes nothing of the sends, the stored
\* rows, the list and the controller when there is no session to cancel.
CancelIsClean ==
    /\ [](\A s \in Sessions :
             sess[s].outcome = "abort"
             => sess[s].updates = << >> /\ sess[s].toasts = << >> /\ Idle)
    /\ [][(mounted /\ ~mounted' /\ ~Abortable(page.abortRef))
          => /\ sess' = sess
             /\ rows' = rows
             /\ messages' = messages
             /\ page' = page]_vars

\* a send was cancelled while it streamed, after text had been accumulated
CancelledMidStream ==
    \E s \in Sessions :
        /\ sess[s].outcome = "abort"
        /\ sess[s].st.deltas = <<Hel>>
        /\ sess[s].fetched
        /\ ~mounted

\* C7: when storing the user's message fails, or creating the draft fails,
\* no stream request is issued for that send.
NoFetchAfterFailure ==
    \A s \in Sessions :
        (sess[s].userFailed \/ sess[s].outcome = "draftfail") => ~sess[s].fetched

\* C8: a send that fails (429, 402, another status, no body, a transport
\* error) issues no updateMessageContent: the stored draft keeps its empty
\* content and its draft marker, whatever was accumulated and displayed, and
\* the session is torn down.
FailureLeavesDraft ==
    \A s \in Sessions :
        Failed(s)
        => /\ sess[s].updates = << >>
           /\ rows[sess[s].draft].content = EmptyText
           /\ rows[sess[s].draft].draft
           /\ Idle

\* the transport failed after "Hel" was accumulated and displayed
FailedAfterText ==
    \E s \in Sessions :
        /\ sess[s].outcome = "streamerr"
        /\ sess[s].st.fullContent = Hel
        /\ ContentOf(messages, sess[s].draft) = Hel
        /\ rows[sess[s].draft].content = EmptyText

\* C9: a frame is requested only when none is pending, so at most one frame
\* is pending; the slot holds the latest value supplied; a frame that fires
\* writes the list once, with that value.
OneFramePerRender ==
    /\ [](/\ Cardinality(frames) <= 1
          /\ frames # {} => page.rafRef # 0
          /\ ghost.lastSupplier # 0
             => page.latestContentRef = sess[ghost.lastSupplier].st.fullContent)
    /\ [][/\ ~(frames' \subseteq frames) => (frames = {} /\ page.rafRef = 0)
          /\ \A f \in frames :
                (f \notin frames' /\ mounted')
                => /\ messages' =
                         SetContent(messages, f.messageId, page.latestContentRef)
                   /\ frames' = {}
                   /\ page'.rafRef = 0]_vars

\* two values were supplied while one frame was pending: one frame, the
\* slot holds the second value, nothing is written yet
TwoValuesOneFrame ==
    \E s \in Sessions :
        /\ sess[s].st.deltas = <<Hel, Lo>>
        /\ sess[s].pc = "read"
        /\ Cardinality(frames) = 1
        /\ page.latestContentRef = Hel \o Lo
        /\ ContentOf(messages, sess[s].draft) = EmptyText
        /\ mounted

\* C10: no starvation of the final state: when values are supplied and then
\* stop (every handler returns) then, frames firing eventually, a value
\* supplied for the draft of a send comes to be shown for that draft,
\* unless a newer value is supplied for it (or the draft leaves the list,
\* or the page is unmounted).
NoStarvation ==
    \A s \in Sessions : \A v \in Values :
        <>[]Quiet => (Supplied(s, v) ~> Settled(s, v))

\* a value the list shows for the draft of a streaming send stays shown
\* until the send supplies a newer one
ShownStays ==
    [][\A s \in Sessions : \A v \in Values :
          (Supplied(s, v) /\ ContentOf(messages, sess[s].draft) = v /\ mounted')
          => (ContentOf(messages', sess[s].draft) = v
              \/ sess'[s].st.fullContent # v
              \/ sess'[s].pc # "read")]_vars

\* C11: when the stream ends normally with text, the step that ends the
\* session applies the full accumulated text to the displayed content of
\* the draft, whether or not a frame is pending and whether or not the
\* finalize write succeeded.
FinalApply ==
    [][\A s \in Sessions :
          (sess[s].pc = "updateResp" /\ sess'[s].pc = "done"
           /\ HasId(messages, sess[s].draft))
          => ContentOf(messages', sess[s].draft) = sess[s].st.fullContent]_vars

\* C12: every message of the list that carries draft = true and has content
\* is presented as in progress.
DraftsNotFinal ==
    \A i \in 1..Len(messages) :
        (messages[i].draft /\ messages[i].content # EmptyText)
        => PresentedStreaming(page, messages[i])

\* C13: between the issue of the stream request and the end of the byte
\* stream a send issues no persistence write: no step taken while the send
\* waits for the response or reads the stream changes the stored rows, and
\* the send has called updateMessageContent for nothing yet, so the row of
\* its draft is still the empty draft.  The finalize call is the only write
\* to the draft: at most one per send, carrying the concatenation of all the
\* deltas, and no delta is accumulated after it was issued.
NoWriteWhileStreaming ==
    /\ [](\A s \in Sessions :
             /\ Len(sess[s].updates) <= 1
             /\ (sess[s].kind = "chat" /\ sess[s].pc \in {"fetch", "read"})
                => /\ sess[s].updates = << >>
                   /\ rows[sess[s].draft].content = EmptyText
                   /\ rows[sess[s].draft].draft
             /\ sess[s].updates # << >>
                => /\ sess[s].updates[1].id = sess[s].draft
                   /\ sess[s].updates[1].content = Concat(sess[s].st.deltas))
    /\ [][\A s \in Sessions :
             /\ (sess[s].kind = "chat" /\ sess[s].pc \in {"fetch", "read"})
                => rows' = rows
             /\ sess[s].updates # << >>
                => /\ sess'[s].st.deltas = sess[s].st.deltas
                   /\ sess'[s].updates = sess[s].updates]_vars

\* both deltas were accumulated and nothing was written yet
TwoDeltasNothingStored ==
    \E s \in Sessions :
        /\ sess[s].pc = "read"
        /\ sess[s].st.deltas = <<Hel, Lo>>
        /\ sess[s].updates = << >>
        /\ rows[sess[s].draft].content = EmptyText

\* C15: a send that ended on a 429 response has shown exactly the rate-limit
\* notification, one that ended on a 402 response exactly the credits
\* notification, one that ended on another response that is not ok, a missing
\* body or a transport error exactly the generic notification, and an
\* aborted send none; a send that has ended issues nothing more (no retry):
\* its record, the stream request included, never changes again.
FailureCategories ==
    /\ [](\A s \in Sessions :
             /\ sess[s].outcome = "429" => sess[s].toasts = <<"rate">>
             /\ sess[s].outcome = "402" => sess[s].toasts = <<"credits">>
             /\ sess[s].outcome \in {"failed", "streamerr"}
                => sess[s].toasts = <<"generic">>
             /\ sess[s].outcome = "abort" => sess[s].toasts = << >>
             /\ Failed(s) => sess[s].pc = "done" /\ sess[s].updates = << >>)
    /\ [][\A s \in Sessions :
             /\ sess[s].pc = "done" => sess'[s] = sess[s]
             /\ (sess[s].fetched /\ sess[s].pc # "fetch")
                => sess'[s].pc # "fetch"]_vars

\* a send ended on a 429 response with the rate-limit notification alone
RateLimited ==
    \E s \in Sessions :
        /\ sess[s].outcome = "429"
        /\ sess[s].toasts = <<"rate">>
        /\ Idle

\* C14: when the stream of a send ended normally and no delta was yielded,
\* the send has called updateMessageContent for nothing, the stored row of
\* its draft still has content "" and its draft marker, every entry of the
\* list for the draft shows "", and no notification was shown.
EmptyStreamLeavesPlaceholder ==
    \A s \in Sessions :
        (EndedNormally(s) /\ sess[s].st.fullContent = EmptyText)
        => /\ sess[s].outcome = "empty"
           /\ sess[s].updates = << >>
           /\ rows[sess[s].draft].content = EmptyText
           /\ rows[sess[s].draft].draft
           /\ \A i \in 1..Len(messages) :
                 messages[i].id = sess[s].draft => messages[i].content = EmptyText
           /\ sess[s].toasts = << >>

\* a stream of [DONE] alone ended: the draft is listed, empty and a draft
EmptyPlaceholderShown ==
    \E s \in Sessions :
        /\ sess[s].outcome = "empty"
        /\ sess[s].fetched
        /\ sess[s].st.deltas = << >>
        /\ HasId(messages, sess[s].draft)
        /\ ContentOf(messages, sess[s].draft) = EmptyText
        /\ rows[sess[s].draft].draft

\* C16: the realtime subscription is the one of the selected conversation:
\* every notification that waits for delivery belongs to the conversation
\* that is selected in the mounted page; a step that selects or creates
\* another conversation leaves no notification waiting (the previous channel
\* is removed and the new one has received nothing yet); and a notification
\* that is delivered to the list belongs to the conversation selected at
\* that moment, so none of a previous conversation is merged after its
\* channel was removed.
OneSubscription ==
    /\ [](\A id \in DOMAIN realtime :
             realtime[id].status = "queued"
             => mounted /\ realtime[id].msg.conv = currentConversation)
    /\ [][/\ currentConversation' # currentConversation
             => \A id \in DOMAIN realtime' : realtime'[id].status # "queued"
          /\ \A id \in DOMAIN realtime :
                (realtime[id].status = "queued"
                 /\ realtime'[id].status \in {"merged", "ignored"})
                => /\ realtime[id].msg.conv = currentConversation
                   /\ currentConversation' = currentConversation]_vars

\* a notification of conversation 1 was merged while it was selected; after
\* conversation 2 was selected a later insert into conversation 1 was not
\* delivered and is not in the list
PreviousNotMerged ==
    /\ mounted
    /\ currentConversation = 2
    /\ \E id, later \in DOMAIN realtime :
          /\ id < later
          /\ realtime[id].msg.conv = 1
          /\ realtime[id].status = "merged"
          /\ realtime[later].msg.conv = 1
          /\ realtime[later].status = "none"
          /\ ~HasId(messages, later)

\* C17: a send whose finalize write failed (updateMessageContent returned
\* false) has shown an error notification.
FinalizeFailureSurfaced ==
    \A s \in Sessions : sess[s].outcome = "unsaved" => sess[s].toasts # << >>

\* the first line of buffer buf (without its newline) when it holds one
FirstLine(buf) == SliceTo(buf, IndexOf(buf, LF) - 1)

\* line is a data line whose payload makes the try block throw
Unparsable(line) ==
    /\ StartsWith(line, DataPrefix)
    /\ Trim(SliceFrom(line, 6)) # DoneLiteral
    /\ ParseDelta(Trim(SliceFrom(line, 6))).throws

\* C18: a complete data line whose payload fails to parse is put back: a
\* line buffer that holds a complete line after a chunk was processed begins
\* with such a line, followed by a newline and by everything of the buffer
\* that came after it, unprocessed; the line is parsed again with the next
\* chunk, which therefore leaves the buffer with the chunk appended and
\* yields nothing.  The read loop goes on: no error ends it.
RebufferRule ==
    /\ [](IndexOf(parser.st.textBuffer, LF) # 0
          => Unparsable(FirstLine(parser.st.textBuffer)))
    /\ [][parser'.pos > parser.pos
          => LET chunk == SubSeq(parser.input, parser.pos + 1, parser'.pos)
                 buf   == AppendChunk(parser.st.textBuffer, chunk)
                 out   == parser'.st.textBuffer
                 line  == FirstLine(out)
             IN /\ IndexOf(out, LF) # 0
                   => \E k \in 1..Len(buf) :
                         /\ buf[k] = LF
                         /\ out = line \o <<LF>> \o SliceFrom(buf, k)
                         /\ \/ SliceTo(buf, k - 1) = line
                            \/ SliceTo(buf, k - 1) = line \o <<CR>>
                            \/ EndsWith(SliceTo(buf, k - 1), <<LF>> \o line)
                            \/ EndsWith(SliceTo(buf, k - 1), <<LF>> \o line \o <<CR>>)
                /\ IndexOf(parser.st.textBuffer, LF) # 0
                   => /\ out = parser.st.textBuffer \o chunk
                      /\ parser'.st.deltas = parser.st.deltas]_vars

\* "data: null" followed by the line of "Hel": both lines are in the buffer
\* and no delta was yielded
NullLineKept ==
    /\ parser.input = DataPrefix \o NullLiteral \o <<LF>> \o DataLine(Hel) \o <<LF>>
    /\ parser.pos = Len(parser.input)
    /\ parser.st.textBuffer = parser.input
    /\ parser.st.deltas = << >>

\* the text read up to and including its last newline
UpToLastNewline(text) ==
    IF IndexOf(text, LF) = 0 THEN EmptyText
    ELSE SliceTo(text, CHOOSE k \in 1..Len(text) :
                          text[k] = LF /\ \A j \in (k + 1)..Len(text) : text[j] # LF)

\* C19: when the stream closes, what is left in the line buffer yields no
\* delta: the step that closes the stream leaves the deltas, the running
\* text and the buffer as they are, and the finalize step that follows uses
\* the concatenation of the deltas yielded before; these are the deltas of
\* the input up to its last newline, so an unterminated last line, also a
\* well-formed data line, contributes nothing.
RemainderDropped ==
    /\ [](parser.closed
          => /\ parser.st.deltas =
                   ReadChunk(NewStream, UpToLastNewline(parser.input)).deltas
             /\ parser.final = FinalizeCalls(1, Concat(parser.st.deltas)))
    /\ [][(~parser.closed /\ parser'.closed)
          => /\ parser'.st = parser.st
             /\ parser'.final = FinalizeCalls(1, Concat(parser.st.deltas))]_vars

\* the line of "Hel" and then the line of "Hi" without its newline: the
\* stream closed, "Hi" is still in the buffer and "Hel" alone is finalized
UnterminatedLineDropped ==
    /\ parser.closed
    /\ parser.input = DataLine(Hel) \o <<LF>> \o DataLine(Hi)
    /\ parser.st.textBuffer = DataLine(Hi)
    /\ parser.st.deltas = <<Hel>>
    /\ parser.final = <<[id |-> 1, content |-> Hel]>>

\* text a is a prefix of text b
IsPrefix(a, b) == Len(a) <= Len(b) /\ SliceTo(b, Len(a)) = a

\* C20: the running text is at every point the concatenation, in order, of
\* the deltas yielded so far, with nothing added, removed or trimmed; the
\* values a chunk hands to updateDraftContentThrottled each extend the one
\* before (the first one the running text before the chunk) by one delta,
\* the last one is the running text after the chunk, and the running text
\* never gets shorter.
RunningTextIsConcat ==
    /\ [](parser.st.fullContent = Concat(parser.st.deltas))
    /\ [][LET chunk == SubSeq(parser.input, parser.pos + 1, parser'.pos)
              r     == ReadChunk(parser.st, chunk)
              n     == Len(parser.st.deltas)
          IN /\ IsPrefix(parser.st.fullContent, parser'.st.fullContent)
             /\ Len(parser'.st.fullContent) >= Len(parser.st.fullContent)
             /\ IsPrefix(parser.st.deltas, parser'.st.deltas)
             /\ parser'.pos > parser.pos
                => /\ Len(r.calls) = Len(r.deltas) - n
                   /\ \A i \in 1..Len(r.calls) :
                         r.calls[i] =
                            (IF i = 1 THEN parser.st.fullContent ELSE r.calls[i - 1])
                            \o r.deltas[n + i]
                   /\ r.calls # << >>
                      => r.calls[Len(r.calls)] = parser'.st.fullContent]_vars

\* "Hel" and "lo" were yielded in two chunks and the running text is "Hello"
HelloAccumulated ==
    /\ parser.st.deltas = <<Hel, Lo>>
    /\ parser.st.fullContent = <<"H","e","l","l","o">>
    /\ parser.midLine
    /\ ~parser.closed

\* the complete lines of a text, each without its newline and its '\r'
RECURSIVE CompleteLines(_)
CompleteLines(text) ==
    IF IndexOf(text, LF) = 0 THEN << >>
    ELSE LET raw == FirstLine(text) IN
         <<IF EndsWith(raw, <<CR>>) THEN SliceTo(raw, Len(raw) - 1) ELSE raw>>
         \o CompleteLines(SliceFrom(text, IndexOf(text, LF)))

\* what one line on its own is to yield: nothing for a blank or
\* whitespace-only line, a comment, a line without the data prefix, [DONE]
\* and a payload without content; its content for a well-formed data line
LineYield(line) ==
    LET payload == Trim(SliceFrom(line, 6)) IN
    IF Trim(line) = EmptyText \/ StartsWith(line, <<":">>) THEN << >>
    ELSE IF ~StartsWith(line, DataPrefix) THEN << >>
    ELSE IF payload = DoneLiteral \/ payload = EmptyObject THEN << >>
    ELSE IF IsDeltaPayload(payload)
            /\ Len(payload) > Len(PayloadHead) + Len(PayloadTail)
    THEN <<SubSeq(payload, Len(PayloadHead) + 1, Len(payload) - Len(PayloadTail))>>
    ELSE << >>

RECURSIVE YieldsOf(_)
YieldsOf(lines) ==
    IF lines = << >> THEN << >> ELSE LineYield(Head(lines)) \o YieldsOf(Tail(lines))

\* C21: as long as no complete line read so far is unparsable, the deltas
\* yielded are, line by line and in order, what each line yields on its own:
\* nothing for a blank or whitespace-only line, a comment line, a line
\* without the prefix "data: ", a [DONE] line and a payload without content,
\* and exactly one delta, never an empty one, for every other well-formed
\* data line; so a line that is skipped leaves the deltas of the lines
\* before and after it as they are.
SkippedLinesYieldNothing ==
    LET lines == CompleteLines(SliceTo(parser.input, parser.pos)) IN
    (\A i \in 1..Len(lines) : ~Unparsable(lines[i]))
    => /\ parser.st.deltas = YieldsOf(lines)
       /\ \A i \in 1..Len(parser.st.deltas) : parser.st.deltas[i] # EmptyText
       /\ \A i \in 1..Len(lines) :
             (\E d \in {Hel, Lo, Hi} : Trim(lines[i]) = DataLine(d))
             <=> Len(LineYield(lines[i])) = 1

\* a payload with empty content before the line of "Hel": only "Hel" is
\* yielded
EmptyPayloadSkipped ==
    /\ parser.input = DataLine(EmptyText) \o <<LF>> \o DataLine(Hel) \o <<LF>>
    /\ parser.pos = Len(parser.input)
    /\ parser.st.deltas = <<Hel>>
    /\ parser.st.textBuffer = EmptyText

\* C22: when every awaited call eventually completes or fails, every send
\* that passed the isStreaming guard eventually has returned with the
\* controller Idle (isStreaming = false, streamingMessageId = null,
\* abortRef = null), whatever its outcome.
ReturnsToIdle ==
    \A s \in Sessions :
        <>[]Quiet
        => ((sess[s].pc \notin {"idle", "done"}) ~> (sess[s].pc = "done" /\ Idle))

\* a send whose finalize write failed has returned and the controller is Idle
UnsavedAndIdle ==
    \E s \in Sessions : sess[s].outcome = "unsaved" /\ Idle

\* C23: the steps of a send are ordered.  The row of a draft is inserted by
\* a send whose addMessage call has returned, with empty content and the
\* draft marker; when the stream request is issued the draft row exists, is
\* still empty and a draft, and was inserted after the user row of the send;
\* the payload of the request is fixed when the handler is invoked, before
\* any change of the list by the send: the messages of the list in order
\* (role and content) followed by the new user message, and nothing after
\* it, so the draft is not part of it.
SendStepsOrdered ==
    /\ [](\A s \in Sessions :
             (sess[s].kind = "chat" /\ sess[s].pc = "fetch")
             => /\ sess[s].draft \in DOMAIN rows
                /\ rows[sess[s].draft].role = "assistant"
                /\ rows[sess[s].draft].content = EmptyText
                /\ rows[sess[s].draft].draft
                /\ sess[s].row # 0 => sess[s].row < sess[s].draft
                /\ sess[s].row = 0 <=> sess[s].userFailed
                /\ sess[s].history # << >>
                /\ sess[s].history[Len(sess[s].history)] =
                      [role |-> "user", content |-> UserText])
    /\ [][\A s \in Sessions :
             /\ (sess[s].pc = "idle" /\ sess'[s].pc \notin {"idle", "done"}
                 /\ sess'[s].kind = "chat")
                => sess'[s].history =
                      RoleContent(messages)
                      \o <<[role |-> "user", content |-> UserText]>>
             /\ (sess[s].pc \notin {"idle", "done"} /\ sess'[s].pc # "done")
                => sess'[s].history = sess[s].history
             /\ (sess[s].draft = 0 /\ sess'[s].draft # 0)
                => /\ sess[s].pc = "draftInsert"
                   /\ sess'[s].draft = Len(rows) + 1
                   /\ rows' = Append(rows, [id |-> Len(rows) + 1,
                                            conv |-> sess[s].capConv,
                                            role |-> "assistant",
                                            content |-> EmptyText,
                                            draft |-> TRUE])]_vars

\* the request of a second send is in flight: its payload holds the earlier
\* messages and ends with its user message; its user row precedes its draft
SecondRequestIssued ==
    \E s \in Sessions :
        /\ s > 1
        /\ sess[s].pc = "fetch"
        /\ Len(sess[s].history) > 1
        /\ sess[s].row # 0
        /\ sess[s].row < sess[s].draft

\* C24: after a failed finalize write the displayed content of the draft is
\* not rolled back: while the page is mounted, the list holds the draft and
\* was never reloaded by selectConversation, it shows the full accumulated
\* text, or a prefix of it while a frame is pending for the draft that will
\* write the full text; and from the finalize call on no step other than a
\* reload of the list by fetchMessages makes the displayed content shorter.
NoRollback ==
    /\ [](\A s \in Sessions :
             (sess[s].outcome = "unsaved" /\ mounted /\ selects = 0
              /\ HasId(messages, sess[s].draft))
             => \/ ContentOf(messages, sess[s].draft) = sess[s].st.fullContent
                \/ /\ IsPrefix(ContentOf(messages, sess[s].draft),
                               sess[s].st.fullContent)
                   /\ page.latestContentRef = sess[s].st.fullContent
                   /\ \E f \in frames : f.messageId = sess[s].draft)
    /\ [][\A s \in Sessions :
             (sess[s].pc \in {"update", "updateResp", "done"}
              /\ sess[s].draft # 0 /\ sess[s].fetched
              /\ HasId(messages, sess[s].draft) /\ HasId(messages', sess[s].draft)
              /\ ~\E f \in fetches : messages' = f.data /\ f.phase = "read")
             => IsPrefix(ContentOf(messages, sess[s].draft),
                         ContentOf(messages', sess[s].draft))]_vars

\* the finalize write failed and the list shows "Hello", written by a frame
UnsavedTextShown ==
    \E s \in Sessions :
        /\ sess[s].outcome = "unsaved"
        /\ mounted
        /\ selects = 0
        /\ frames = {}
        /\ rows[sess[s].draft].content = EmptyText
        /\ ContentOf(messages, sess[s].draft) = <<"H","e","l","l","o">>

\* list next differs from list prev at most in the content of the entries
\* whose id is id
OnlyContentOf(prev, next, id) ==
    /\ Len(next) = Len(prev)
    /\ \A i \in 1..Len(prev) :
          IF prev[i].id = id
          THEN next[i] = [prev[i] EXCEPT !.content = next[i].content]
          ELSE next[i] = prev[i]

\* C25: a frame that fires and the local part of the finalize update change
\* at most the content field of the entries whose id is the draft id they
\* were issued for: the length and the order of the list, every id and every
\* other field of every entry are unchanged, and a list without an entry of
\* that id is left as it is.
DraftWritesOnlyContent ==
    [][/\ \A f \in frames :
             (f \notin frames' /\ mounted')
             => /\ OnlyContentOf(messages, messages', f.messageId)
                /\ ~HasId(messages, f.messageId) => messages' = messages
       /\ \A s \in Sessions :
             (sess[s].pc = "updateResp" /\ sess'[s].pc = "done")
             => /\ OnlyContentOf(messages, messages', sess[s].draft)
                /\ ~HasId(messages, sess[s].draft) => messages' = messages]_vars

\* a frame wrote "Hel" into the draft, the second entry of a list whose
\* first entry, the user message, is as it was
FrameWroteDraft ==
    \E s \in Sessions :
        /\ sess[s].pc = "read"
        /\ Len(messages) = 2
        /\ messages[1] = [id |-> 1, conv |-> 1, role |-> "user",
                          content |-> UserText, draft |-> FALSE]
        /\ messages[2] = [id |-> 2, conv |-> 1, role |-> "assistant",
                          content |-> Hel, draft |-> TRUE]
        /\ sess[s].draft = 2

\* the index of the first unparsable line of lines (0: none)
FirstUnparsable(lines) ==
    IF \E i \in 1..Len(lines) : Unparsable(lines[i])
    THEN CHOOSE i \in 1..Len(lines) :
            Unparsable(lines[i]) /\ \A j \in 1..(i - 1) : ~Unparsable(lines[j])
    ELSE 0

\* C26: once a complete data line has failed to parse it stays the first
\* line of the buffer: the deltas yielded are those of the lines before it
\* and no line after it yields one, whatever arrives later; every later
\* chunk and the close of the stream leave the deltas and the accumulated
\* text as they were.
UnparsableLineBlocks ==
    /\ [](LET lines == CompleteLines(SliceTo(parser.input, parser.pos))
              k     == FirstUnparsable(lines)
          IN k # 0
             => /\ IndexOf(parser.st.textBuffer, LF) # 0
                /\ FirstLine(parser.st.textBuffer) = lines[k]
                /\ parser.st.deltas = YieldsOf(SubSeq(lines, 1, k - 1))
                /\ parser.st.fullContent = Concat(YieldsOf(SubSeq(lines, 1, k - 1))))
    /\ [][IndexOf(parser.st.textBuffer, LF) # 0
          => /\ FirstLine(parser'.st.textBuffer) = FirstLine(parser.st.textBuffer)
             /\ parser'.st.deltas = parser.st.deltas
             /\ parser'.st.fullContent = parser.st.fullContent]_vars

\* a truncated payload on a complete line, then the line of "Hel": the
\* stream closed, nothing was yielded and nothing is finalized
LaterLineLost ==
    /\ parser.closed
    /\ parser.input = SliceTo(DataLine(Hi), 13) \o <<LF>> \o DataLine(Hel) \o <<LF>>
    /\ parser.midLine
    /\ parser.st.deltas = << >>
    /\ parser.final = << >>

\* C27: the content the list shows for the draft of a send is a prefix of
\* the text accumulated by that send.
DisplayedIsOwnPrefix ==
    \A s \in Sessions :
        (sess[s].kind = "chat" /\ sess[s].draft # 0 /\ HasId(messages, sess[s].draft))
        => IsPrefix(ContentOf(messages, sess[s].draft), sess[s].st.fullContent)

\* C28: while a send is streaming and the list holds its draft, no step
\* (realtime insert, selectConversation and fetchMessages, a frame) makes
\* the displayed content of the draft shorter: each step leaves it or
\* replaces it by an extension.
DisplayNeverShrinks ==
    [][\A s \in Sessions :
          (Active(s) /\ Active(s)'
           /\ HasId(messages, sess[s].draft) /\ HasId(messages', sess[s].draft))
          => IsPrefix(ContentOf(messages, sess[s].draft),
                      ContentOf(messages', sess[s].draft))]_vars

\* C29: while the stream request of a send is in flight, abortRef holds the
\* controller of that send.
HandleHoldsInFlight ==
    \A s \in Sessions :
        (sess[s].kind = "chat" /\ sess[s].pc \in {"fetch", "read"})
        => page.abortRef = s

\* C30: after a successful finalize, and as long as the list was not
\* reloaded, the entry of the list for the draft has the content of the
\* stored row, the full accumulated text, and still carries the draft marker
\* it was created with, while the stored row has lost it.
LocalKeepsDraftMarker ==
    \A s \in Sessions :
        (sess[s].outcome = "finalized" /\ selects = 0)
        => /\ rows[sess[s].draft].content = sess[s].st.fullContent
           /\ ~rows[sess[s].draft].draft
           /\ \A i \in 1..Len(messages) :
                 messages[i].id = sess[s].draft
                 => /\ messages[i].content = rows[sess[s].draft].content
                    /\ messages[i].draft

\* "Hello" was finalized: the list shows it in an entry marked as a draft,
\* the stored row is no draft
FinalizedStillMarked ==
    \E s \in Sessions :
        /\ sess[s].outcome = "finalized"
        /\ selects = 0
        /\ HasId(messages, sess[s].draft)
        /\ ContentOf(messages, sess[s].draft) = <<"H","e","l","l","o">>
        /\ \E i \in 1..Len(messages) :
              messages[i].id = sess[s].draft /\ messages[i].draft
        /\ ~rows[sess[s].draft].draft

=============================================================================
